---- MODULE Spec2Model ----
(***************************************************************************)
(* Model of garak/generators/ggml.py: GgmlGenerator.__init__ (validation   *)
(* of the executable and of the model file) and GgmlGenerator._call_model  *)
(* (one synchronous run of the external executable and its failure         *)
(* policy).                                                                *)
(*                                                                         *)
(* Spec      one adapter, generate calls issued one after the other.       *)
(* SpecConc  a constructed adapter, calls issued from several threads; a   *)
(*           call is split where subprocess.run blocks on the process.     *)
(* SpecCmd   a constructed adapter whose parameters were each left at the  *)
(*           default or set to None, then called: the argument vector.     *)
(* SpecStrip a constructed adapter called with short prompts and every     *)
(*           short stdout: decoding and prompt-echo stripping.             *)
(***************************************************************************)
EXTENDS Integers, Sequences, FiniteSets, TLC

\* ---------------------------------------------------------------- bounds
MaxFileLen == 5
MaxCalls == 3
NumThreads == 2
MaxDetailCalls == 1
MaxPromptLen == 2
MaxStdoutLen == 3

\* ------------------------------------------------------------ environment
\* os.getenv returns None for a variable that is not set.
None == "<None>"

\* Values the environment variable GGML_MAIN_PATH may hold.
ExeEnvValues == {None, "", "/nonexistent/main", "/opt/llama.cpp", "/opt/llama.cpp/main"}

\* Values of the constructor parameter name (the model path).
ModelNames == {"/models/missing.gguf", "/models", "/models/m.gguf"}

\* os.path.isfile: true only of an existing regular file ("" and a directory are not).
isfile(path) == path \in {"/opt/llama.cpp/main", "/models/m.gguf"}

\* Bytes a model file is made of: 0x46 'F', 0x47 'G', 0x55 'U'.
ByteAlphabet == {70, 71, 85}

FileContents == UNION {[1..k -> ByteAlphabet] : k \in 0..MaxFileLen}

GGUF_MAGIC == <<71, 71, 85, 70>>

Min(a, b) == IF a < b THEN a ELSE b

\* file.read(n): the first n bytes, fewer when the file is shorter.
read(data, n) == SubSeq(data, 1, Min(n, Len(data)))

\* ---------------------------------------------------------- Python values
PyNone == [t |-> "NoneType", i |-> 0, e |-> 0, s |-> ""]

PyInt(n) == [t |-> "int", i |-> n, e |-> 0, s |-> ""]

\* the float m / 10^e, e >= 1 digits after the point
PyFloat(m, e) == [t |-> "float", i |-> m, e |-> e, s |-> ""]

PyStr(x) == [t |-> "str", i |-> 0, e |-> 0, s |-> x]

\* a path held as a string, or None
PyOf(x) == IF x = None THEN PyNone ELSE PyStr(x)

DigitChar == <<"0", "1", "2", "3", "4", "5", "6", "7", "8", "9">>

RECURSIVE NatToStr(_)
NatToStr(n) ==
    IF n < 10 THEN DigitChar[n + 1] ELSE NatToStr(n \div 10) \o DigitChar[(n % 10) + 1]

RECURSIVE Pow10(_)
Pow10(e) == IF e = 0 THEN 1 ELSE 10 * Pow10(e - 1)

\* the e low decimal digits of f, zero padded
RECURSIVE FracToStr(_, _)
FracToStr(f, e) ==
    IF e = 0 THEN "" ELSE FracToStr(f \div 10, e - 1) \o DigitChar[(f % 10) + 1]

Abs(n) == IF n < 0 THEN -n ELSE n

\* str(value)
str(v) ==
    CASE v.t = "NoneType" -> "None"
      [] v.t = "int" -> (IF v.i < 0 THEN "-" ELSE "") \o NatToStr(Abs(v.i))
      [] v.t = "float" -> (IF v.i < 0 THEN "-" ELSE "")
                          \o NatToStr(Abs(v.i) \div Pow10(v.e)) \o "."
                          \o FracToStr(Abs(v.i) % Pow10(v.e), v.e)
      [] v.t = "str" -> v.s

\* ------------------------------------------------------------------- text
\* Text is a sequence of one-character strings; Join gives the one string.
RECURSIVE Join(_)
Join(cs) == IF cs = <<>> THEN "" ELSE Head(cs) \o Join(Tail(cs))

\* Bytes the process may write to stdout: 'a', 'b', ' ' and 0xFF, which is
\* not valid UTF-8 anywhere.
StdoutAlphabet == {97, 98, 32, 255}

Decodable(bytes) == \A k \in DOMAIN bytes : bytes[k] < 128

CharOf(b) == CASE b = 97 -> "a" [] b = 98 -> "b" [] b = 32 -> " " [] OTHER -> "?"

ByteOf(c) == CASE c = "a" -> 97 [] c = "b" -> 98 [] c = " " -> 32 [] OTHER -> 63

\* bytes.decode("utf-8") of decodable bytes
decode(bytes) == [k \in DOMAIN bytes |-> CharOf(bytes[k])]

encode(cs) == [k \in DOMAIN cs |-> ByteOf(cs[k])]

IsSpace(c) == c \in {" ", "\t", "\n", "\r"}

\* str.lstrip()
RECURSIVE lstrip(_)
lstrip(cs) == IF cs # <<>> /\ IsSpace(Head(cs)) THEN lstrip(Tail(cs)) ELSE cs

StartsWith(cs, pre) == Len(pre) <= Len(cs) /\ SubSeq(cs, 1, Len(pre)) = pre

\* Variant of StripEcho: every leading repetition of the prompt is removed.
RECURSIVE StripEcho_All(_, _)
StripEcho_All(prompt, out) ==
    LET P == lstrip(prompt)
        O == lstrip(out)
    IN IF P # <<>> /\ StartsWith(O, P)
       THEN StripEcho_All(prompt, SubSeq(O, Len(P) + 1, Len(O)))
       ELSE O

\* re.sub("^" + re.escape(prompt.lstrip()), "", output.lstrip()): "^" matches
\* at the start of the text only, so at most one occurrence is replaced.
StripEcho(prompt, out) ==
    LET P == lstrip(prompt)
        O == lstrip(out)
    IN IF StartsWith(O, P) THEN SubSeq(O, Len(P) + 1, Len(O)) ELSE O

PromptChars == {"a", " "}

\* Prompt of the calls of Spec and SpecConc.
Prompts == {<<" ", "a">>}

\* Prompts of the calls of SpecCmd.
CmdPrompts == {<<"a">>, <<" ", "b">>}

\* Prompts and stdouts of the calls of SpecStrip.
StripPrompts == UNION {[1..k -> PromptChars] : k \in 0..MaxPromptLen}

StdoutBytes == UNION {[1..k -> StdoutAlphabet] : k \in 0..MaxStdoutLen}

\* ------------------------------------------------------------------ state
VARIABLES
    GGML_MAIN_PATH,         \* environment variable read by __init__
    name,                   \* constructor parameter: path of the model
    model_data,             \* bytes of the file at name (<<>> when not a file)
    run_seed,               \* _config.run.seed
    max_tokens,             \* attributes of the adapter: the generation parameters
    repeat_penalty,
    presence_penalty,
    frequency_penalty,
    top_k,
    top_p,
    temperature,
    seed,
    exception_on_failure,   \* attribute of the adapter
    first_call,             \* attribute of the adapter
    steps,                  \* what __init__ did to the environment, in order
    phase,                  \* "new", "ready" (__init__ returned), "failed" (__init__ raised)
    error,                  \* what __init__ raised
    invocations,            \* number of subprocess.run calls started
    running,                \* per thread: the _call_model in flight
    calls                   \* history: one record per finished _call_model

\* the generation parameters
params == <<max_tokens, repeat_penalty, presence_penalty, frequency_penalty,
            top_k, top_p, temperature, seed>>

\* what a call does not write
config == <<GGML_MAIN_PATH, name, model_data, run_seed, params, exception_on_failure>>

vars == <<config, first_call, steps, phase, error, invocations, running, calls>>

Threads == 1..NumThreads

NoError == [type |-> "", msg |-> ""]

Idle == [active |-> FALSE, id |-> 0, fc_at_launch |-> FALSE, overlap |-> {},
         prompt |-> <<>>, command |-> <<>>]

\* What one run of the external process does: it cannot be started
\* (started = FALSE), or it exits with returncode having written stdout and
\* stderr, each of which is or is not valid UTF-8.
ProcOutcomes ==
    {[started |-> FALSE, returncode |-> 0, stdout_ok |-> TRUE, stderr_ok |-> TRUE]}
    \cup [started : {TRUE}, returncode : {0, 1}, stdout_ok : BOOLEAN, stderr_ok : BOOLEAN]

\* ----------------------------------------------------------- construction
\* Variant of InitError: the header is compared over the bytes that were
\* read only, so a file shorter than the signature passes.
InitError_PrefixMagic(env, nm, data) ==
    IF env = None
    THEN [type |-> "RuntimeError", msg |-> "Executable not provided by environment GGML_MAIN_PATH"]
    ELSE IF ~isfile(env)
    THEN [type |-> "FileNotFoundError", msg |-> "Path provided is not a file"]
    ELSE IF ~isfile(nm)
    THEN [type |-> "FileNotFoundError", msg |-> "File not found, unable to load model"]
    ELSE IF read(data, Len(GGUF_MAGIC)) # read(GGUF_MAGIC, Len(data))
    THEN [type |-> "RuntimeError", msg |-> "is not in GGUF format"]
    ELSE NoError

\* Variant of InitError: the model path is opened without the isfile test.
InitError_NoModelIsfile(env, nm, data) ==
    IF env = None
    THEN [type |-> "RuntimeError", msg |-> "Executable not provided by environment GGML_MAIN_PATH"]
    ELSE IF ~isfile(env)
    THEN [type |-> "FileNotFoundError", msg |-> "Path provided is not a file"]
    ELSE IF read(data, Len(GGUF_MAGIC)) # GGUF_MAGIC
    THEN [type |-> "RuntimeError", msg |-> "is not in GGUF format"]
    ELSE NoError

\* Variant of InitError: the header of the model file is not checked.
InitError_NoMagic(env, nm, data) ==
    IF env = None
    THEN [type |-> "RuntimeError", msg |-> "Executable not provided by environment GGML_MAIN_PATH"]
    ELSE IF ~isfile(env)
    THEN [type |-> "FileNotFoundError", msg |-> "Path provided is not a file"]
    ELSE IF ~isfile(nm)
    THEN [type |-> "FileNotFoundError", msg |-> "File not found, unable to load model"]
    ELSE NoError

\* The exception __init__ raises, or NoError.
InitError(env, nm, data) ==
    IF env = None
    THEN [type |-> "RuntimeError", msg |-> "Executable not provided by environment GGML_MAIN_PATH"]
    ELSE IF ~isfile(env)
    THEN [type |-> "FileNotFoundError", msg |-> "Path provided is not a file"]
    ELSE IF ~isfile(nm)
    THEN [type |-> "FileNotFoundError", msg |-> "File not found, unable to load model"]
    ELSE IF read(data, Len(GGUF_MAGIC)) # GGUF_MAGIC
    THEN [type |-> "RuntimeError", msg |-> "is not in GGUF format"]
    ELSE NoError

\* ------------------------------------------------------------- invocation
\* Variant of CallModel: the generic handler clears first_call.
CallModel_GenericClears(proc, fc, eof) ==
    IF ~proc.started
    THEN [result |-> "None", exc |-> "", logged |-> TRUE, first_call |-> FALSE]
    ELSE IF eof /\ proc.returncode # 0
    THEN IF ~proc.stderr_ok
         THEN [result |-> "raise", exc |-> "UnicodeDecodeError", logged |-> FALSE, first_call |-> fc]
         ELSE IF fc
         THEN [result |-> "raise", exc |-> "CalledProcessError", logged |-> TRUE, first_call |-> fc]
         ELSE [result |-> "None", exc |-> "", logged |-> TRUE, first_call |-> fc]
    ELSE IF ~proc.stdout_ok
    THEN [result |-> "None", exc |-> "", logged |-> TRUE, first_call |-> FALSE]
    ELSE [result |-> "text", exc |-> "", logged |-> FALSE, first_call |-> FALSE]

\* Variant of CallModel: the success path leaves first_call as it was.
CallModel_NoFlip(proc, fc, eof) ==
    IF ~proc.started
    THEN [result |-> "None", exc |-> "", logged |-> TRUE, first_call |-> fc]
    ELSE IF eof /\ proc.returncode # 0
    THEN IF ~proc.stderr_ok
         THEN [result |-> "raise", exc |-> "UnicodeDecodeError", logged |-> FALSE, first_call |-> fc]
         ELSE IF fc
         THEN [result |-> "raise", exc |-> "CalledProcessError", logged |-> TRUE, first_call |-> fc]
         ELSE [result |-> "None", exc |-> "", logged |-> TRUE, first_call |-> fc]
    ELSE IF ~proc.stdout_ok
    THEN [result |-> "None", exc |-> "", logged |-> TRUE, first_call |-> fc]
    ELSE [result |-> "text", exc |-> "", logged |-> FALSE, first_call |-> fc]

\* Variant of CallModel: the CalledProcessError handler clears first_call
\* before it raises.
CallModel_ClearOnRaise(proc, fc, eof) ==
    IF ~proc.started
    THEN [result |-> "None", exc |-> "", logged |-> TRUE, first_call |-> fc]
    ELSE IF eof /\ proc.returncode # 0
    THEN IF ~proc.stderr_ok
         THEN [result |-> "raise", exc |-> "UnicodeDecodeError", logged |-> FALSE, first_call |-> fc]
         ELSE IF fc
         THEN [result |-> "raise", exc |-> "CalledProcessError", logged |-> TRUE, first_call |-> FALSE]
         ELSE [result |-> "None", exc |-> "", logged |-> TRUE, first_call |-> fc]
    ELSE IF ~proc.stdout_ok
    THEN [result |-> "None", exc |-> "", logged |-> TRUE, first_call |-> fc]
    ELSE [result |-> "text", exc |-> "", logged |-> FALSE, first_call |-> FALSE]

\* Variant of CallModel: the test of first_call is inverted.
CallModel_InvertedFirstCall(proc, fc, eof) ==
    IF ~proc.started
    THEN [result |-> "None", exc |-> "", logged |-> TRUE, first_call |-> fc]
    ELSE IF eof /\ proc.returncode # 0
    THEN IF ~proc.stderr_ok
         THEN [result |-> "raise", exc |-> "UnicodeDecodeError", logged |-> FALSE, first_call |-> fc]
         ELSE IF ~fc
         THEN [result |-> "raise", exc |-> "CalledProcessError", logged |-> TRUE, first_call |-> fc]
         ELSE [result |-> "None", exc |-> "", logged |-> TRUE, first_call |-> fc]
    ELSE IF ~proc.stdout_ok
    THEN [result |-> "None", exc |-> "", logged |-> TRUE, first_call |-> fc]
    ELSE [result |-> "text", exc |-> "", logged |-> FALSE, first_call |-> FALSE]

\* Variant of CallModel: a recovered non-zero exit re-arms first_call.
CallModel_Rearm(proc, fc, eof) ==
    IF ~proc.started
    THEN [result |-> "None", exc |-> "", logged |-> TRUE, first_call |-> fc]
    ELSE IF eof /\ proc.returncode # 0
    THEN IF ~proc.stderr_ok
         THEN [result |-> "raise", exc |-> "UnicodeDecodeError", logged |-> FALSE, first_call |-> fc]
         ELSE IF fc
         THEN [result |-> "raise", exc |-> "CalledProcessError", logged |-> TRUE, first_call |-> fc]
         ELSE [result |-> "None", exc |-> "", logged |-> TRUE, first_call |-> TRUE]
    ELSE IF ~proc.stdout_ok
    THEN [result |-> "None", exc |-> "", logged |-> TRUE, first_call |-> fc]
    ELSE [result |-> "text", exc |-> "", logged |-> FALSE, first_call |-> FALSE]

\* _call_model from subprocess.run on: the value returned or the exception
\* propagated, whether logging.error was called, and first_call afterwards.
CallModel(proc, fc, eof) ==
    IF ~proc.started
    THEN \* subprocess.run raised something else: except Exception
         [result |-> "None", exc |-> "", logged |-> TRUE, first_call |-> fc]
    ELSE IF eof /\ proc.returncode # 0
    THEN \* check=True: CalledProcessError
         IF ~proc.stderr_ok
         THEN \* err.stderr.decode raises inside the handler
              [result |-> "raise", exc |-> "UnicodeDecodeError", logged |-> FALSE, first_call |-> fc]
         ELSE IF fc
         THEN [result |-> "raise", exc |-> "CalledProcessError", logged |-> TRUE, first_call |-> fc]
         ELSE [result |-> "None", exc |-> "", logged |-> TRUE, first_call |-> fc]
    ELSE IF ~proc.stdout_ok
    THEN \* result.stdout.decode raises: except Exception
         [result |-> "None", exc |-> "", logged |-> TRUE, first_call |-> fc]
    ELSE [result |-> "text", exc |-> "", logged |-> FALSE, first_call |-> FALSE]

CallRecord(id, proc, fcLaunch, fcBefore, overlap, r, p, cmd, bytes, txt) ==
    [id |-> id, proc |-> proc, fc_at_launch |-> fcLaunch, before |-> fcBefore,
     overlap |-> overlap, result |-> r.result, exc |-> r.exc, logged |-> r.logged,
     after |-> r.first_call, prompt |-> p, command |-> cmd, stdout |-> bytes,
     text |-> txt]

\* ---------------------------------------------------------- construction 2
\* Variant of ResolveSeed: the run seed is taken as it is.
ResolveSeed_NoDefault(rs) == rs

\* _config.run.seed if _config.run.seed is not None else 0
ResolveSeed(rs) == IF rs # PyNone THEN rs ELSE PyInt(0)

\* Variant of InitSteps: the model header is read before the executable is
\* looked at.
InitSteps_ModelFirst(env, nm, data) ==
    (IF isfile(nm) THEN <<"open model", "read model", "close model">> ELSE <<>>)
    \o <<"getenv">>
    \o (IF env = None THEN <<>> ELSE <<"isfile executable">>)

\* What __init__ does to the environment, in order, up to the first raise.
InitSteps(env, nm, data) ==
    <<"getenv">> \o
    (IF env = None THEN <<>>
     ELSE <<"isfile executable">> \o
          (IF ~isfile(env) THEN <<>>
           ELSE <<"isfile model">> \o
                (IF ~isfile(nm) THEN <<>>
                 ELSE <<"open model", "read model", "close model">>)))

\* -------------------------------------------------------- command builder
\* the attributes command_params reads
Self ==
    [name |-> name, max_tokens |-> max_tokens, repeat_penalty |-> repeat_penalty,
     presence_penalty |-> presence_penalty, frequency_penalty |-> frequency_penalty,
     top_k |-> top_k, top_p |-> top_p, temperature |-> temperature, seed |-> seed]

command_params(a) ==
    << <<"-m", PyOf(a.name)>>,
       <<"-n", a.max_tokens>>,
       <<"--repeat-penalty", a.repeat_penalty>>,
       <<"--presence-penalty", a.presence_penalty>>,
       <<"--frequency-penalty", a.frequency_penalty>>,
       <<"--top-k", a.top_k>>,
       <<"--top-p", a.top_p>>,
       <<"--temp", a.temperature>>,
       <<"-s", a.seed>> >>

\* Python truth value
Truthy(v) ==
    CASE v.t = "NoneType" -> FALSE
      [] v.t = "int" -> v.i # 0
      [] v.t = "float" -> v.i # 0
      [] v.t = "str" -> v.s # ""

\* Variant of AppendParams: "if value:" in place of "if value is not None:".
RECURSIVE AppendParams_Truthy(_, _)
AppendParams_Truthy(cmd, kv) ==
    IF kv = <<>> THEN cmd
    ELSE AppendParams_Truthy(
            IF Truthy(Head(kv)[2]) THEN cmd \o <<PyStr(Head(kv)[1]), Head(kv)[2]>> ELSE cmd,
            Tail(kv))

\* the loop over command_params().items()
RECURSIVE AppendParams(_, _)
AppendParams(cmd, kv) ==
    IF kv = <<>> THEN cmd
    ELSE AppendParams(
            IF Head(kv)[2] # PyNone THEN cmd \o <<PyStr(Head(kv)[1]), Head(kv)[2]>> ELSE cmd,
            Tail(kv))

\* Variant of BuildCommand: the parameters are appended on the first call only.
BuildCommand_FirstCallOnly(exe, p, a) ==
    LET full == AppendParams(<<PyStr(exe), PyStr("-p"), PyStr(Join(p))>>,
                             IF first_call THEN command_params(a) ELSE <<>>)
    IN [k \in DOMAIN full |-> str(full[k])]

\* the list command of _call_model
BuildCommand(exe, p, a) ==
    LET full == AppendParams(<<PyStr(exe), PyStr("-p"), PyStr(Join(p))>>, command_params(a))
    IN [k \in DOMAIN full |-> str(full[k])]

\* ------------------------------------------------------------------- Init
RunSeeds == {PyNone, PyInt(7)}

\* class attributes of GgmlGenerator and of its base class
ClassDefaults ==
    /\ max_tokens = PyInt(150)
    /\ repeat_penalty = PyFloat(11, 1)
    /\ presence_penalty = PyFloat(0, 1)
    /\ frequency_penalty = PyFloat(0, 1)
    /\ top_k = PyInt(40)
    /\ top_p = PyFloat(95, 2)
    /\ temperature = PyFloat(8, 1)

NotCalled ==
    /\ first_call = TRUE
    /\ invocations = 0
    /\ running = [t \in Threads |-> Idle]
    /\ calls = <<>>

Init ==
    /\ GGML_MAIN_PATH \in ExeEnvValues
    /\ name \in ModelNames
    /\ model_data \in FileContents
    /\ (~isfile(name) => model_data = <<>>)
    /\ run_seed \in RunSeeds
    /\ ClassDefaults
    /\ seed = PyNone
    /\ exception_on_failure \in BOOLEAN
    /\ steps = <<>>
    /\ phase = "new"
    /\ error = NoError
    /\ NotCalled

\* A constructed adapter.
Constructed ==
    /\ GGML_MAIN_PATH = "/opt/llama.cpp/main"
    /\ model_data = GGUF_MAGIC
    /\ run_seed = PyNone
    /\ steps = InitSteps(GGML_MAIN_PATH, "/models/m.gguf", model_data)
    /\ phase = "ready"
    /\ error = NoError
    /\ NotCalled

\* A constructed adapter, each parameter then left as it is or set to None.
InitCmd ==
    /\ Constructed
    /\ name \in {None, "/models/m.gguf"}
    /\ max_tokens \in {PyNone, PyInt(150)}
    /\ repeat_penalty \in {PyNone, PyFloat(11, 1)}
    /\ presence_penalty \in {PyNone, PyFloat(0, 1)}
    /\ frequency_penalty \in {PyNone, PyFloat(0, 1)}
    /\ top_k \in {PyNone, PyInt(40)}
    /\ top_p \in {PyNone, PyFloat(95, 2)}
    /\ temperature \in {PyNone, PyFloat(8, 1)}
    /\ seed \in {PyNone, PyInt(0), PyInt(7)}
    /\ exception_on_failure = TRUE

\* A constructed adapter with every parameter at its default.
InitReady ==
    /\ Constructed
    /\ name = "/models/m.gguf"
    /\ ClassDefaults
    /\ seed = ResolveSeed(run_seed)
    /\ exception_on_failure \in BOOLEAN

\* ---------------------------------------------------------------- actions
\* GgmlGenerator(name)
Construct ==
    /\ phase = "new"
    /\ error' = InitError(GGML_MAIN_PATH, name, model_data)
    /\ steps' = InitSteps(GGML_MAIN_PATH, name, model_data)
    /\ seed' = IF GGML_MAIN_PATH # None /\ isfile(GGML_MAIN_PATH)
               THEN ResolveSeed(run_seed) ELSE seed
    /\ phase' = IF error' = NoError THEN "ready" ELSE "failed"
    /\ UNCHANGED <<GGML_MAIN_PATH, name, model_data, run_seed, max_tokens,
                   repeat_penalty, presence_penalty, frequency_penalty, top_k,
                   top_p, temperature, exception_on_failure,
                   first_call, invocations, running, calls>>

\* the text _call_model returns when it returns text
Output(p, bytes, r) == IF r.result = "text" THEN StripEcho(p, decode(bytes)) ELSE <<>>

\* generator._call_model(p), start to finish, no other call in flight; the
\* process behaves as proc and writes bytes to stdout
Call(p, proc, bytes, limit) ==
    /\ phase = "ready"
    /\ invocations < limit
    /\ \A t \in Threads : ~running[t].active
    /\ proc.stdout_ok = Decodable(bytes)
    /\ LET r == CallModel(proc, first_call, exception_on_failure)
       IN /\ first_call' = r.first_call
          /\ calls' = Append(calls,
                CallRecord(invocations + 1, proc, first_call, first_call, {}, r, p,
                           BuildCommand(GGML_MAIN_PATH, p, Self), bytes,
                           Output(p, bytes, r)))
    /\ invocations' = invocations + 1
    /\ UNCHANGED <<config, steps, phase, error, running>>

\* a stdout for a process that behaves as proc: the prompt echoed and " b"
StdoutOf(p, proc) == IF proc.stdout_ok THEN encode(p) \o <<32, 98>> ELSE <<255>>

Generate(proc) == \E p \in Prompts : Call(p, proc, StdoutOf(p, proc), MaxCalls)

GenerateOnce(p, proc) == Call(p, proc, StdoutOf(p, proc), MaxDetailCalls)

GenerateText(p, bytes) ==
    Call(p, [started |-> TRUE, returncode |-> 0, stdout_ok |-> Decodable(bytes),
             stderr_ok |-> TRUE], bytes, MaxDetailCalls)

\* thread t enters _call_model, builds the command and blocks in subprocess.run
Launch(t) ==
    /\ phase = "ready"
    /\ invocations < MaxCalls
    /\ ~running[t].active
    /\ invocations' = invocations + 1
    /\ \E p \in Prompts :
         running' = [u \in Threads |->
          IF u = t
          THEN [active |-> TRUE, id |-> invocations + 1, fc_at_launch |-> first_call,
                overlap |-> {running[v].id : v \in {w \in Threads : running[w].active}},
                prompt |-> p, command |-> BuildCommand(GGML_MAIN_PATH, p, Self)]
          ELSE IF running[u].active
          THEN [running[u] EXCEPT !.overlap = @ \cup {invocations + 1}]
          ELSE running[u]]
    /\ UNCHANGED <<config, first_call, steps, phase, error, calls>>

\* subprocess.run of thread t returns or raises; t runs the rest of _call_model
Finish(t, proc) ==
    /\ running[t].active
    /\ LET r == CallModel(proc, first_call, exception_on_failure)
       IN /\ first_call' = r.first_call
          /\ calls' = Append(calls,
                CallRecord(running[t].id, proc, running[t].fc_at_launch, first_call,
                           running[t].overlap, r, running[t].prompt, running[t].command,
                           StdoutOf(running[t].prompt, proc),
                           Output(running[t].prompt, StdoutOf(running[t].prompt, proc), r)))
    /\ running' = [running EXCEPT ![t] = Idle]
    /\ UNCHANGED <<config, steps, phase, error, invocations>>

Next ==
    \/ Construct
    \/ \E proc \in ProcOutcomes : Generate(proc)

Spec == Init /\ [][Next]_vars

NextConc ==
    \/ \E t \in Threads : Launch(t)
    \/ \E t \in Threads, proc \in ProcOutcomes : Finish(t, proc)

SpecConc == InitReady /\ [][NextConc]_vars

NextCmd == \E p \in CmdPrompts, proc \in ProcOutcomes : GenerateOnce(p, proc)

SpecCmd == InitCmd /\ [][NextCmd]_vars

NextStrip == \E p \in StripPrompts, bytes \in StdoutBytes : GenerateText(p, bytes)

SpecStrip == InitReady /\ [][NextStrip]_vars

\* ------------------------------------------------------------- vocabulary
ExitedNonZero(c) == c.proc.started /\ c.proc.returncode # 0

ExitedZero(c) == c.proc.started /\ c.proc.returncode = 0

Done == DOMAIN calls

TypeOK ==
    /\ GGML_MAIN_PATH \in ExeEnvValues
    /\ name \in ModelNames \cup {None}
    /\ model_data \in FileContents
    /\ exception_on_failure \in BOOLEAN
    /\ first_call \in BOOLEAN
    /\ phase \in {"new", "ready", "failed"}
    /\ seed \in {PyNone, PyInt(0)} \cup RunSeeds
    /\ invocations \in 0..MaxCalls
    /\ Len(calls) <= invocations
    /\ \A i \in DOMAIN calls : Len(calls[i].command) >= 3

\* The error kinds of construction, by the exception and message raised.
ConfigurationError(e) ==
    e.type = "RuntimeError" /\ e.msg = "Executable not provided by environment GGML_MAIN_PATH"

NotFoundError(e) == e.type = "FileNotFoundError"

FormatError(e) == e.type = "RuntimeError" /\ e.msg = "is not in GGUF format"

\* ----------------------------------------------------------------- claims

\* C1: after every generate call whose process yielded an exit code (zero
\* or non-zero; stdout and stderr decodable), first_call is false when the
\* call returns or propagates.
C1_FlipOnAnyExitCode ==
    \A i \in Done :
        (calls[i].proc.started /\ calls[i].proc.stdout_ok /\ calls[i].proc.stderr_ok)
            => calls[i].after = FALSE

\* C2: with exception_on_failure at its default and a readable stderr, a
\* non-zero exit on the second or any later call is logged and returns None
\* instead of propagating, also when every earlier call exited non-zero.
C2_OnlyFirstCallPropagates ==
    \A i \in Done :
        (/\ i >= 2 /\ exception_on_failure
         /\ \A k \in 1..(i - 1) : calls[k].proc.started
         /\ ExitedNonZero(calls[i]) /\ calls[i].proc.stderr_ok)
            => (calls[i].result = "None" /\ calls[i].logged)

\* C3: with exception_on_failure at its default (true), when the very first
\* generate call ends with the process exiting non-zero, the call propagates
\* an error; it returns neither text nor None.
C3_FirstCallEscalation ==
    (exception_on_failure /\ Len(calls) >= 1 /\ ExitedNonZero(calls[1]))
        => calls[1].result = "raise"

C3_Witness ==
    /\ exception_on_failure
    /\ Len(calls) >= 1
    /\ ExitedNonZero(calls[1])
    /\ calls[1].before
    /\ calls[1].exc = "CalledProcessError"

\* C4: once a generate call has succeeded (exit code zero, text returned),
\* every later call whose process exits non-zero logs the error and returns
\* None; it never propagates (stated for exception_on_failure = true).
C4_NoPropagationAfterSuccess ==
    \A i \in Done, j \in Done :
        (i < j /\ exception_on_failure
         /\ ExitedZero(calls[i]) /\ calls[i].result = "text" /\ ExitedNonZero(calls[j]))
            => (calls[j].result = "None" /\ calls[j].logged)

\* C5: for both values of exception_on_failure, a generate call whose
\* process exits non-zero never returns the process's stdout as text: it
\* propagates an error or returns None.
C5_ExitCodeIsTheSignal ==
    \A i \in Done : ExitedNonZero(calls[i]) => calls[i].result \in {"raise", "None"}

\* C6: first_call is monotonic: once false, no operation (successful call,
\* non-zero exit, unexpected failure) sets it back to true.
C6_FirstCallMonotonic == [][(first_call = FALSE) => (first_call' = FALSE)]_vars

C6_Witness ==
    /\ first_call = FALSE
    /\ \E i \in Done, j \in Done, k \in Done :
          /\ i < j /\ i < k
          /\ calls[i].result = "text"
          /\ ExitedNonZero(calls[j]) /\ calls[j].result = "None"
          /\ ~calls[k].proc.started

\* C7: of two generate calls in flight at the same time, both entered while
\* first_call was true and both ending in a non-zero exit, at most one is
\* treated as the first call and propagates the CalledProcessError.
C7_OneFirstCallAmongConcurrent ==
    \A i \in Done, j \in Done :
        (i # j /\ calls[j].id \in calls[i].overlap
         /\ calls[i].fc_at_launch /\ calls[j].fc_at_launch
         /\ ExitedNonZero(calls[i]) /\ ExitedNonZero(calls[j]))
            => ~(calls[i].exc = "CalledProcessError" /\ calls[j].exc = "CalledProcessError")

\* C8: the external process is run only by an adapter whose construction
\* completed; construction completes only if GGML_MAIN_PATH names a regular
\* file and name names a regular file whose first 4 bytes are the GGUF
\* signature; a failed construction runs no process.
C8_ValidationPrecedesInvocation ==
    /\ (invocations > 0 \/ calls # <<>>) => phase = "ready"
    /\ phase = "ready" =>
          /\ GGML_MAIN_PATH # None /\ isfile(GGML_MAIN_PATH)
          /\ isfile(name)
          /\ Len(model_data) >= 4
          /\ \A b \in 1..4 : model_data[b] = GGUF_MAGIC[b]
    /\ phase = "failed" => (error # NoError /\ invocations = 0 /\ calls = <<>>)

C8_Witness ==
    /\ phase = "ready"
    /\ Len(model_data) > 4
    /\ invocations > 0
    /\ calls # <<>>

\* C9: construction fails with ConfigurationError whenever GGML_MAIN_PATH is
\* unset or is the empty string, and with no other kind of error.
C9_UnsetOrEmptyExecutable ==
    (phase # "new" /\ GGML_MAIN_PATH \in {None, ""})
        => (phase = "failed" /\ ConfigurationError(error))

\* C10: with a valid executable, every model file that exists but whose
\* first 4 bytes are not 0x47 0x47 0x55 0x46 makes construction fail with
\* FormatError, whatever its length, files of 0 to 3 bytes included.
C10_BadSignatureIsFormatError ==
    (/\ phase # "new"
     /\ GGML_MAIN_PATH # None /\ isfile(GGML_MAIN_PATH)
     /\ isfile(name)
     /\ ~(Len(model_data) >= 4 /\ \A b \in 1..4 : model_data[b] = GGUF_MAGIC[b]))
        => (phase = "failed" /\ FormatError(error))

C10_Witness ==
    /\ phase = "failed"
    /\ GGML_MAIN_PATH # None /\ isfile(GGML_MAIN_PATH)
    /\ isfile(name)
    /\ Len(model_data) < 4
    /\ FormatError(error)

\* C11 (as stated): whenever the executable path or the model path does not
\* name an existing regular file, construction fails with NotFoundError,
\* whatever the state of the other path.
C11_MissingPathIsNotFound ==
    (phase # "new"
     /\ ((GGML_MAIN_PATH # None /\ ~isfile(GGML_MAIN_PATH)) \/ ~isfile(name)))
        => (phase = "failed" /\ NotFoundError(error))

\* C11 (amended): whenever GGML_MAIN_PATH is set and the executable path or
\* the model path does not name an existing regular file, construction
\* fails with NotFoundError.
C11_MissingPathIsNotFoundWhenExeSet ==
    (phase # "new" /\ GGML_MAIN_PATH # None
     /\ (~isfile(GGML_MAIN_PATH) \/ ~isfile(name)))
        => (phase = "failed" /\ NotFoundError(error))

C11_Witness ==
    /\ phase = "failed"
    /\ GGML_MAIN_PATH # None /\ isfile(GGML_MAIN_PATH)
    /\ ~isfile(name)
    /\ NotFoundError(error)

\* C12: the argument vector is the executable path, "-p", the prompt as one
\* argument, then for each parameter that is not None its flag and its value
\* as text, in the order -m, -n, --repeat-penalty, --presence-penalty,
\* --frequency-penalty, --top-k, --top-p, --temp, -s; setting one more
\* parameter to None removes exactly its flag and value.
C12_Opt(flag, present, txt) == IF present THEN <<flag, txt>> ELSE <<>>

C12_PromptText(p) == IF p = <<"a">> THEN "a" ELSE " b"

C12_Expected(p) ==
    <<"/opt/llama.cpp/main", "-p", C12_PromptText(p)>>
    \o C12_Opt("-m", name # None, "/models/m.gguf")
    \o C12_Opt("-n", max_tokens # PyNone, "150")
    \o C12_Opt("--repeat-penalty", repeat_penalty # PyNone, "1.1")
    \o C12_Opt("--presence-penalty", presence_penalty # PyNone, "0.0")
    \o C12_Opt("--frequency-penalty", frequency_penalty # PyNone, "0.0")
    \o C12_Opt("--top-k", top_k # PyNone, "40")
    \o C12_Opt("--top-p", top_p # PyNone, "0.95")
    \o C12_Opt("--temp", temperature # PyNone, "0.8")
    \o C12_Opt("-s", seed # PyNone, IF seed = PyInt(0) THEN "0" ELSE "7")

C12_Fields ==
    <<"name", "max_tokens", "repeat_penalty", "presence_penalty", "frequency_penalty",
      "top_k", "top_p", "temperature", "seed">>

C12_Flags ==
    <<"-m", "-n", "--repeat-penalty", "--presence-penalty", "--frequency-penalty",
      "--top-k", "--top-p", "--temp", "-s">>

C12_IsSet(k) == IF k = 1 THEN name # None ELSE Self[C12_Fields[k]] # PyNone

C12_Unset(k) ==
    IF k = 1 THEN [Self EXCEPT !.name = None] ELSE [Self EXCEPT ![C12_Fields[k]] = PyNone]

C12_ArgumentVector ==
    \A i \in Done :
        LET cmd == calls[i].command
        IN /\ cmd = C12_Expected(calls[i].prompt)
           /\ \A k \in 1..9 :
                 C12_IsSet(k) =>
                    \E q \in 4..(Len(cmd) - 1) :
                       /\ cmd[q] = C12_Flags[k]
                       /\ BuildCommand(GGML_MAIN_PATH, calls[i].prompt, C12_Unset(k))
                            = SubSeq(cmd, 1, q - 1) \o SubSeq(cmd, q + 2, Len(cmd))

C12_Witness ==
    /\ calls # <<>>
    /\ presence_penalty # PyNone /\ frequency_penalty = PyNone /\ top_k # PyNone
    /\ seed = PyInt(0)
    /\ Len(calls[1].command) = 19

\* C13: on a call that returns text, with P the prompt and O the decoded
\* stdout, each without its leading whitespace: if O = P + suffix the call
\* returns suffix (one leading occurrence of P removed, later ones kept),
\* and if O does not start with P the call returns O.
C13_Trimmed(T, x) ==
    \E k \in 0..Len(x) :
        /\ T = SubSeq(x, k + 1, Len(x))
        /\ \A j \in 1..k : IsSpace(x[j])
        /\ (T = <<>> \/ ~IsSpace(T[1]))

C13_EchoStripping ==
    \A i \in Done :
        calls[i].result = "text" =>
            \E kp \in 0..Len(calls[i].prompt), ko \in 0..Len(calls[i].stdout) :
                LET P == SubSeq(calls[i].prompt, kp + 1, Len(calls[i].prompt))
                    O == SubSeq(decode(calls[i].stdout), ko + 1, Len(calls[i].stdout))
                IN /\ C13_Trimmed(P, calls[i].prompt)
                   /\ C13_Trimmed(O, decode(calls[i].stdout))
                   /\ \A suffix \in {SubSeq(O, n + 1, Len(O)) : n \in 0..Len(O)} :
                         O = P \o suffix => calls[i].text = suffix
                   /\ (~\E n \in 0..Len(O) : SubSeq(O, 1, n) = P) => calls[i].text = O

C13_Witness ==
    \E i \in Done :
        /\ calls[i].result = "text"
        /\ calls[i].prompt = <<" ", "a">>
        /\ decode(calls[i].stdout) = <<" ", "a", "a">>
        /\ calls[i].text = <<"a">>

\* C14: a generate call that fails for a reason other than a non-zero
\* process exit (the process could not be started, stdout of a zero exit
\* could not be decoded) logs the error, returns None without propagating,
\* and leaves first_call as it was, on the first call too.
C14_UnexpectedFailure ==
    \A i \in Done :
        (~calls[i].proc.started \/ (ExitedZero(calls[i]) /\ ~calls[i].proc.stdout_ok))
            => /\ calls[i].result = "None"
               /\ calls[i].logged
               /\ calls[i].after = calls[i].before

C14_Witness ==
    /\ Len(calls) >= 3
    /\ ~calls[1].proc.started /\ calls[1].before /\ calls[1].after
    /\ calls[2].result = "text"
    /\ ~calls[3].proc.started /\ ~calls[3].before /\ ~calls[3].after

\* C15: for every valid (executable, model) pair construction succeeds with
\* seed equal to the run seed, or 0 when the run seed is None; the seed of a
\* constructed adapter is never None, so every argument vector it builds
\* contains "-s" followed by that seed.
C15_SeedResolved ==
    /\ (/\ phase # "new"
        /\ GGML_MAIN_PATH # None /\ isfile(GGML_MAIN_PATH) /\ isfile(name)
        /\ Len(model_data) >= 4 /\ \A b \in 1..4 : model_data[b] = GGUF_MAGIC[b])
          => phase = "ready"
    /\ phase = "ready" =>
          /\ seed # PyNone
          /\ seed = (IF run_seed = PyNone THEN PyInt(0) ELSE run_seed)
    /\ \A i \in Done :
          \E q \in 4..(Len(calls[i].command) - 1) :
             /\ calls[i].command[q] = "-s"
             /\ calls[i].command[q + 1] = (IF run_seed = PyNone THEN "0" ELSE "7")

C15_Witness ==
    /\ phase = "ready"
    /\ run_seed = PyNone
    /\ seed = PyInt(0)
    /\ calls # <<>>

\* C16 (as stated): every generate call whose process exits with code zero
\* returns text and leaves first_call false, whatever bytes were written to
\* stdout.
C16_ZeroExitReturnsText ==
    \A i \in Done :
        ExitedZero(calls[i]) => (calls[i].result = "text" /\ calls[i].after = FALSE)

\* C16 (amended): every generate call whose process exits with code zero and
\* whose stdout is valid UTF-8 returns text and leaves first_call false; when
\* stdout is not valid UTF-8 the call logs, returns None and leaves
\* first_call as it was.
C16_ZeroExitDecodableReturnsText ==
    \A i \in Done :
        ExitedZero(calls[i]) =>
            IF calls[i].proc.stdout_ok
            THEN calls[i].result = "text" /\ calls[i].after = FALSE
            ELSE calls[i].result = "None" /\ calls[i].logged
                 /\ calls[i].after = calls[i].before

C16_Witness ==
    \E i \in Done, j \in Done :
        /\ ExitedZero(calls[i]) /\ ~calls[i].proc.stdout_ok /\ calls[i].after
        /\ ExitedZero(calls[j]) /\ calls[j].proc.stdout_ok /\ calls[j].before
        /\ calls[j].result = "text" /\ calls[j].text = <<" ", "b">>

\* C17: a generate call, whatever its outcome, leaves every configuration
\* field unchanged (executable path, model path, max_tokens, the six sampling
\* parameters, seed, exception_on_failure), and two calls with the same
\* prompt build the same argument vector.
C17_Fields ==
    <<GGML_MAIN_PATH, name, max_tokens, repeat_penalty, presence_penalty,
      frequency_penalty, top_k, top_p, temperature, seed, exception_on_failure>>

C17_CallFrame ==
    [][phase = "ready" =>
          /\ C17_Fields' = C17_Fields
          /\ \A i \in DOMAIN calls', j \in DOMAIN calls' :
                calls'[i].prompt = calls'[j].prompt => calls'[i].command = calls'[j].command]_vars

C17_Witness ==
    \E i \in Done, j \in Done, k \in Done :
        /\ calls[i].result = "raise" /\ calls[j].result = "text" /\ calls[k].result = "None"
        /\ calls[i].prompt = calls[j].prompt /\ calls[j].prompt = calls[k].prompt
        /\ calls[i].command = calls[j].command /\ calls[j].command = calls[k].command
        /\ Len(calls[i].command) = 21

\* C18: first_call is false if and only if some earlier generate call on the
\* adapter returned text; a call that propagated an error or returned None
\* leaves the flag as it was.
C18_FlagFalseIffTextReturned ==
    /\ (first_call = FALSE) <=> (\E i \in Done : calls[i].result = "text")
    /\ \A i \in Done : calls[i].result # "text" => calls[i].after = calls[i].before

C18_Witness ==
    /\ first_call = FALSE
    /\ \E i \in Done, j \in Done :
          /\ i < j
          /\ calls[i].result = "raise" /\ calls[i].after
          /\ calls[j].result = "text"

\* C19: the checks of construction run in the order executable set,
\* executable is a file, model is a file, model signature, and stop at the
\* first failure: when executable and model are both invalid the error is the
\* executable's, and the model file is opened and read only after the
\* executable checks and the model-existence check passed.
C19_Order ==
    <<"getenv", "isfile executable", "isfile model", "open model", "read model",
      "close model">>

C19_Has(x) == \E k \in DOMAIN steps : steps[k] = x

C19_CheckOrder ==
    phase # "new" =>
       /\ Len(steps) <= Len(C19_Order)
       /\ \A k \in DOMAIN steps : steps[k] = C19_Order[k]
       /\ (GGML_MAIN_PATH = None \/ ~isfile(GGML_MAIN_PATH)) =>
             /\ phase = "failed"
             /\ error.msg \in {"Executable not provided by environment GGML_MAIN_PATH",
                               "Path provided is not a file"}
             /\ ~C19_Has("isfile model") /\ ~C19_Has("open model") /\ ~C19_Has("read model")
       /\ (C19_Has("open model") \/ C19_Has("read model")) =>
             (GGML_MAIN_PATH # None /\ isfile(GGML_MAIN_PATH) /\ isfile(name))
       /\ ConfigurationError(error) => steps = <<"getenv">>
       /\ error.msg = "Path provided is not a file" => Len(steps) = 2
       /\ error.msg = "File not found, unable to load model" => Len(steps) = 3
       /\ (FormatError(error) \/ phase = "ready") => Len(steps) = 6

C19_Witness ==
    /\ phase = "failed"
    /\ GGML_MAIN_PATH = "/opt/llama.cpp"
    /\ name = "/models"
    /\ error.msg = "Path provided is not a file"
    /\ steps = <<"getenv", "isfile executable">>

====
